---------------------------- MODULE Spec2Model ----------------------------
(***************************************************************************)
(* State-machine model of src/src/proyecto_memoria.py: the paging core of  *)
(* SimuladorOS (RAM frames, swap slots, page tables, FIFO / LRU / CLOCK    *)
(* replacement, optional TLB) and its FCFS process queues.                 *)
(*                                                                         *)
(* A whole simulator is one record (see NewSim); every method of the class *)
(* is an operator from a simulator record to the simulator record it       *)
(* leaves behind, translated statement by statement.  The variables of the *)
(* module are the fields of the simulator under study; `twin' is a second  *)
(* simulator record that receives the same calls.                          *)
(*                                                                         *)
(* Left out: the fields the source writes and never reads back in any      *)
(* decision (PCB.nombre, PCB.prioridad, the PTE's last_access, the slot's  *)
(* stored_time) and the event log.                                         *)
(***************************************************************************)
EXTENDS Integers, Sequences, FiniteSets, TLC

\* ------------------------------------------------------------------ bounds
\* Largest number of frames and of swap slots a configuration of Init has.
MaxFrames == 2
MaxSlots == 1
\* Largest number of PCBs ever created (contador_pid stops at MaxProcs + 1).
MaxProcs == 2
\* Largest number of pages of a created process.
MaxPaginas == 2
\* Largest instruction count of a created process.
MaxInstr == 2
\* The clocks stop here: access_page and ejecutar_ciclo are not called later.
MaxTicks == 2
\* Largest TLB capacity.
MaxTlbSize == 1
\* Largest page size and RAM size, in KB, of the exact-fit configurations.
MaxPageKb == 2
MaxRamKb == 3

\* --------------------------------------------------------------- constants
\* Python's None, for an int-or-None field.
None == -1
\* DEFAULT_CONFIG page_kb and max_random_proc_mem_kb.
PageKb == 256
MaxRandMemKb == 1024

Algos == {"FIFO", "LRU", "CLOCK"}

\* ----------------------------------------------------------------- helpers
Min(a, b) == IF a < b THEN a ELSE b
Max(a, b) == IF a > b THEN a ELSE b

\* deque.remove(x): drops the first occurrence; ValueError is swallowed by
\* every caller, so an absent x leaves the deque as it is.
RECURSIVE deque_remove(_, _)
deque_remove(q, x) ==
    IF q = <<>> THEN <<>>
    ELSE IF Head(q) = x THEN Tail(q)
    ELSE <<Head(q)>> \o deque_remove(Tail(q), x)

\* math.ceil(tam_kb / page_kb) for tam_kb >= 0, page_kb >= 1.
\* A page count that is one too many for sizes that are whole pages.
ceil_div_exceso(tam_kb, page_kb) == (tam_kb \div page_kb) + 1

ceil_div(tam_kb, page_kb) == (tam_kb + page_kb - 1) \div page_kb

\* An empty RAM frame / swap slot (None in the source).
EmptyFrame ==
    [pid |-> None, page |-> None, loaded_time |-> 0, last_access |-> 0,
     referenced |-> FALSE]
EmptySlot == [pid |-> None, page |-> None]
\* A fresh page-table entry.
NewPTE == [present |-> FALSE, frame |-> None, swap_slot |-> None]

\* range(n) as a deque
RECURSIVE deque_range(_)
deque_range(n) == IF n <= 0 THEN <<>> ELSE Append(deque_range(n - 1), n - 1)

\* PCB.__init__
NewPCB(pid, tam_kb, instr, page_kb) ==
    [pid |-> pid,
     tamano_kb |-> tam_kb,
     instrucciones_restantes |-> instr,
     estado |-> "NUEVO",
     paginas |-> ceil_div(tam_kb, page_kb),
     tabla_paginas |-> [i \in 0 .. (ceil_div(tam_kb, page_kb) - 1) |-> NewPTE],
     motivo_terminacion |-> ""]

\* SimuladorOS.__init__ ; `raised' is the exception, if any, that ended the
\* last call on this simulator ("" when it returned).
NewSim(ram_kb, swap_kb, page_kb, algo, tlb_on, tlb_sz) ==
    [ram_kb |-> ram_kb,
     swap_kb |-> swap_kb,
     page_kb |-> page_kb,
     replacement_algo |-> algo,
     tlb_enabled |-> tlb_on,
     tlb_size |-> tlb_sz,
     num_marcos_ram |-> ram_kb \div page_kb,
     num_marcos_swap |-> swap_kb \div page_kb,
     ram |-> [f \in 0 .. ((ram_kb \div page_kb) - 1) |-> EmptyFrame],
     free_frames |-> deque_range(ram_kb \div page_kb),
     swap |-> [x \in 0 .. ((swap_kb \div page_kb) - 1) |-> EmptySlot],
     free_swap_slots |-> deque_range(swap_kb \div page_kb),
     fifo_queue |-> <<>>,
     clock_pointer |-> 0,
     cola_listos |-> <<>>,
     cola_bloqueados |-> <<>>,
     procesos_terminados |-> <<>>,
     proceso_actual |-> None,
     contador_pid |-> 1,
     pcbs |-> <<>>,
     tlb |-> <<>>,
     total_accesos |-> 0,
     total_fallos |-> 0,
     swap_ins |-> 0,
     swap_outs |-> 0,
     ticks |-> 0,
     access_clock |-> 0,
     raised |-> ""]

\* ------------------------------------------------------------------- TLB
\* TLB.entries is an OrderedDict: a sequence of entries, oldest first.
tlb_index(entries, pid, page) ==
    IF \E i \in 1 .. Len(entries) : entries[i].pid = pid /\ entries[i].page = page
    THEN CHOOSE i \in 1 .. Len(entries) : entries[i].pid = pid /\ entries[i].page = page
    ELSE 0

seq_without(q, i) == [j \in 1 .. (Len(q) - 1) |-> IF j < i THEN q[j] ELSE q[j + 1]]

\* TLB.lookup: the frame (None on a miss) and the entries afterwards.
tlb_lookup(entries, pid, page) ==
    LET i == tlb_index(entries, pid, page) IN
    IF i # 0
    THEN [frame |-> entries[i].frame,
          entries |-> Append(seq_without(entries, i), entries[i])]
    ELSE [frame |-> None, entries |-> entries]

\* An add that never drops an entry.
tlb_add_sin_desalojo(entries, size, pid, page, frame) ==
    LET i == tlb_index(entries, pid, page)
        kept == IF i # 0 THEN seq_without(entries, i) ELSE entries
    IN Append(kept, [pid |-> pid, page |-> page, frame |-> frame])

\* TLB.add
tlb_add(entries, size, pid, page, frame) ==
    LET i == tlb_index(entries, pid, page)
        kept == IF i # 0 THEN seq_without(entries, i)
                ELSE IF Len(entries) >= size THEN Tail(entries)
                ELSE entries
    IN Append(kept, [pid |-> pid, page |-> page, frame |-> frame])

\* TLB.invalidate_pid
tlb_invalidate_pid(entries, pid) ==
    SelectSeq(entries, LAMBDA e : e.pid # pid)


\* ------------------------------------------------- searches / utilities
InSeq(q, x) == \E i \in 1 .. Len(q) : q[i] = x

\* find_pcb_by_pid: the PCB (named by its pid) or None; the running slot,
\* the ready, waiting and terminated collections are searched in that order.
find_pcb_by_pid(s, pid) ==
    IF s.proceso_actual # None /\ s.proceso_actual = pid THEN pid
    ELSE IF InSeq(s.cola_listos, pid) THEN pid
    ELSE IF InSeq(s.cola_bloqueados, pid) THEN pid
    ELSE IF InSeq(s.procesos_terminados, pid) THEN pid
    ELSE None

\* ------------------------------------------------ allocation and paging
\* place_page_in_frame
place_page_in_frame(s, pid, pagina, frame_index) ==
    [s EXCEPT
       !.ram[frame_index] = [pid |-> pid, page |-> pagina,
                             loaded_time |-> s.ticks,
                             last_access |-> s.ticks, referenced |-> TRUE],
       !.pcbs[pid].tabla_paginas[pagina] =
           [present |-> TRUE, frame |-> frame_index, swap_slot |-> None],
       !.fifo_queue = IF s.replacement_algo = "FIFO"
                      THEN Append(@, frame_index)
                      ELSE @]

\* A swap-out that forgets the victim's page-table entry: what I3 forbids.
swap_out_sin_pte(s, frame_index) ==
    [s EXCEPT
       !.free_swap_slots = Tail(@),
       !.swap[Head(s.free_swap_slots)] =
           [pid |-> s.ram[frame_index].pid, page |-> s.ram[frame_index].page],
       !.ram[frame_index] = EmptyFrame,
       !.fifo_queue = deque_remove(@, frame_index),
       !.free_frames = Append(@, frame_index),
       !.swap_outs = @ + 1]

\* swap_out_frame from `slot = self.free_swap_slots.popleft()' on: the page
\* in the frame goes to the first free slot.
swap_out_to_slot(s, frame_index) ==
    [s EXCEPT
       !.free_swap_slots = Tail(@),
       !.swap[Head(s.free_swap_slots)] =
           [pid |-> s.ram[frame_index].pid, page |-> s.ram[frame_index].page],
       !.pcbs[s.ram[frame_index].pid].tabla_paginas[s.ram[frame_index].page] =
           IF find_pcb_by_pid(s, s.ram[frame_index].pid) # None
           THEN [present |-> FALSE, frame |-> None,
                 swap_slot |-> Head(s.free_swap_slots)]
           ELSE @,
       !.ram[frame_index] = EmptyFrame,
       !.fifo_queue = deque_remove(@, frame_index),
       !.free_frames = Append(@, frame_index),
       !.swap_outs = @ + 1]

\* swap_out_frame (its return value is ignored by every caller): nothing
\* happens for an empty frame, nor when no swap slot is free.
swap_out_frame(s, frame_index) ==
    IF s.ram[frame_index] = EmptyFrame THEN s
    ELSE IF s.free_swap_slots = <<>> THEN s
    ELSE swap_out_to_slot(s, frame_index)

\* select_victim_frame, FIFO branch (also the default branch)
select_victim_fifo(s) ==
    IF s.fifo_queue # <<>>
    THEN [s |-> [s EXCEPT !.fifo_queue = Tail(@)],
          victim |-> Head(s.fifo_queue)]
    ELSE [s |-> s, victim |-> None]

\* select_victim_frame, LRU branch: the loop over enumerate(self.ram)
RECURSIVE lru_scan(_, _, _, _)
lru_scan(s, i, oldest, oldest_time) ==
    IF i >= s.num_marcos_ram THEN oldest
    ELSE IF s.ram[i] = EmptyFrame THEN lru_scan(s, i + 1, oldest, oldest_time)
    ELSE IF oldest = None \/ s.ram[i].last_access < oldest_time
         THEN lru_scan(s, i + 1, i, s.ram[i].last_access)
         ELSE lru_scan(s, i + 1, oldest, oldest_time)

select_victim_lru(s) == [s |-> s, victim |-> lru_scan(s, 0, None, None)]

\* select_victim_frame, CLOCK branch: the while loop and the forced victim
\* after it.  With n = 0 the loop is skipped and `% n' raises.
RECURSIVE clock_scan(_, _)
clock_scan(s, scans) ==
    IF scans < s.num_marcos_ram
    THEN IF s.ram[s.clock_pointer % s.num_marcos_ram] = EmptyFrame
         THEN [s |-> [s EXCEPT !.clock_pointer = (@ + 1) % s.num_marcos_ram],
               victim |-> s.clock_pointer % s.num_marcos_ram]
         ELSE IF ~s.ram[s.clock_pointer % s.num_marcos_ram].referenced
         THEN [s |-> [s EXCEPT !.clock_pointer =
                                  ((@ % s.num_marcos_ram) + 1) % s.num_marcos_ram],
               victim |-> s.clock_pointer % s.num_marcos_ram]
         ELSE clock_scan(
                [s EXCEPT !.ram[s.clock_pointer % s.num_marcos_ram].referenced = FALSE,
                          !.clock_pointer = (@ + 1) % s.num_marcos_ram],
                scans + 1)
    ELSE IF s.num_marcos_ram = 0
    THEN [s |-> [s EXCEPT !.raised = "ZeroDivisionError"], victim |-> None]
    ELSE [s |-> [s EXCEPT !.clock_pointer =
                             ((@ % s.num_marcos_ram) + 1) % s.num_marcos_ram],
          victim |-> s.clock_pointer % s.num_marcos_ram]

\* A sweep that gives no second chance: the referenced bits stay set.
clock_sin_limpiar(s) == [clock_scan(s, 0) EXCEPT !.s.ram = s.ram]

select_victim_clock(s) == clock_scan(s, 0)

\* select_victim_frame: the simulator afterwards and the frame (or None)
select_victim_frame(s) ==
    IF s.replacement_algo = "LRU" THEN select_victim_lru(s)
    ELSE IF s.replacement_algo = "CLOCK" THEN select_victim_clock(s)
    ELSE select_victim_fifo(s)

\* allocate_pages_for_process, `if victim_frame is None': the page goes
\* straight to a free swap slot, or nowhere.
allocate_in_swap(s, pid, pagina) ==
    IF s.free_swap_slots # <<>>
    THEN [s EXCEPT
            !.free_swap_slots = Tail(@),
            !.pcbs[pid].tabla_paginas[pagina] =
                [present |-> FALSE, frame |-> None,
                 swap_slot |-> Head(s.free_swap_slots)],
            !.swap[Head(s.free_swap_slots)] = [pid |-> pid, page |-> pagina],
            !.swap_outs = @ + 1]
    ELSE s

\* allocate_pages_for_process, after `victim_frame = self.select_victim_frame()'
allocate_with_victim(sel, pid, pagina) ==
    IF sel.s.raised # "" THEN sel.s
    ELSE IF sel.victim = None THEN allocate_in_swap(sel.s, pid, pagina)
    ELSE place_page_in_frame(swap_out_frame(sel.s, sel.victim),
                             pid, pagina, sel.victim)

\* allocate_pages_for_process: the body of the loop for one page
allocate_one_page(s, pid, pagina) ==
    IF s.free_frames # <<>>
    THEN place_page_in_frame([s EXCEPT !.free_frames = Tail(@)],
                             pid, pagina, Head(s.free_frames))
    ELSE allocate_with_victim(select_victim_frame(s), pid, pagina)

\* allocate_pages_for_process: for pagina in range(pcb.paginas), from `pagina'
RECURSIVE allocate_from(_, _, _)
allocate_from(s, pid, pagina) ==
    IF pagina >= s.pcbs[pid].paginas \/ s.raised # "" THEN s
    ELSE allocate_from(allocate_one_page(s, pid, pagina), pid, pagina + 1)

allocate_pages_for_process(s, pid) == allocate_from(s, pid, 0)

\* crear_proceso: the new PCB has pid = contador_pid
crear_proceso(s, tam_kb, instr) ==
    allocate_pages_for_process(
      [s EXCEPT !.pcbs = Append(@, [NewPCB(s.contador_pid, tam_kb, instr, s.page_kb)
                                      EXCEPT !.estado = "LISTO"]),
                !.contador_pid = @ + 1,
                !.cola_listos = Append(@, s.contador_pid)],
      s.contador_pid)

\* ---------------------------------------------------------- page access
\* self.tlb.add(pid, page, frame) `if self.tlb'
tlb_refresh(s, pid, page_index, frame) ==
    IF s.tlb_enabled
    THEN [s EXCEPT !.tlb = tlb_add(@, s.tlb_size, pid, page_index, frame)]
    ELSE s

\* The frame's LRU stamp and CLOCK bit on a hit (skipped for an empty frame).
touch_frame(s, frame) ==
    IF frame # None /\ s.ram[frame] # EmptyFrame
    THEN [s EXCEPT !.ram[frame].last_access = s.access_clock,
                   !.ram[frame].referenced = TRUE]
    ELSE s

\* access_page, TLB probe: a hit updates the frame the TLB names
access_tlb_hit(s, frame) == touch_frame(s, frame)

\* access_page, `if entry["present"]': page-table hit
access_pt_hit(s, pid, page_index) ==
    tlb_refresh(touch_frame(s, s.pcbs[pid].tabla_paginas[page_index].frame),
                pid, page_index, s.pcbs[pid].tabla_paginas[page_index].frame)

\* access_page, swap-in: after the victim went (or failed to go) to swap,
\* `if self.free_frames: frame = self.free_frames.popleft()'
frame_after_swap_out(s, victim) ==
    IF s.free_frames # <<>>
    THEN [s |-> [s EXCEPT !.free_frames = Tail(@)], frame |-> Head(s.free_frames)]
    ELSE [s |-> s, frame |-> victim]

\* access_page, swap-in, after `frame = self.select_victim_frame()'
frame_from_victim(sel) ==
    IF sel.s.raised # "" \/ sel.victim = None
    THEN [s |-> sel.s, frame |-> None]
    ELSE frame_after_swap_out(swap_out_frame(sel.s, sel.victim), sel.victim)

\* access_page, swap-in: the frame to load into (None: give up)
frame_for_swap_in(s) ==
    IF s.free_frames # <<>>
    THEN [s |-> [s EXCEPT !.free_frames = Tail(@)], frame |-> Head(s.free_frames)]
    ELSE frame_from_victim(select_victim_frame(s))

\* A swap-in that leaves the page's copy in its swap slot.
swap_in_sin_liberar(s, pid, page_index, slot, frame) ==
    [s EXCEPT
       !.ram[frame] = [pid |-> pid, page |-> page_index,
                       loaded_time |-> s.ticks,
                       last_access |-> s.access_clock, referenced |-> TRUE],
       !.pcbs[pid].tabla_paginas[page_index] =
           [present |-> TRUE, frame |-> frame, swap_slot |-> None],
       !.swap_ins = @ + 1,
       !.fifo_queue = IF s.replacement_algo = "FIFO" THEN Append(@, frame) ELSE @]

\* access_page, swap-in, from `self.ram[frame] = ...' on; `slot' is the
\* swap slot the PTE named when the fault began.
swap_in_to_frame(s, pid, page_index, slot, frame) ==
    tlb_refresh(
      [s EXCEPT
         !.ram[frame] = [pid |-> pid, page |-> page_index,
                         loaded_time |-> s.ticks,
                         last_access |-> s.access_clock, referenced |-> TRUE],
         !.pcbs[pid].tabla_paginas[page_index] =
             [present |-> TRUE, frame |-> frame, swap_slot |-> None],
         !.swap[slot] = EmptySlot,
         !.free_swap_slots = Append(@, slot),
         !.swap_ins = @ + 1,
         !.fifo_queue = IF s.replacement_algo = "FIFO" THEN Append(@, frame) ELSE @],
      pid, page_index, frame)

swap_in_with(got, pid, page_index, slot) ==
    IF got.frame = None THEN [s |-> got.s, ret |-> FALSE]
    ELSE [s |-> swap_in_to_frame(got.s, pid, page_index, slot, got.frame),
          ret |-> TRUE]

\* access_page, fault on a page that is in swap: `if entry["swap_slot"] is not None'
access_swap_in(s, pid, page_index) ==
    swap_in_with(frame_for_swap_in(s), pid, page_index,
                 s.pcbs[pid].tabla_paginas[page_index].swap_slot)

\* access_page, last `else', after `victim_frame = self.select_victim_frame()'
load_new_with_victim(sel, pid, page_index) ==
    IF sel.s.raised # "" \/ sel.victim = None
    THEN [s |-> sel.s, ret |-> FALSE]
    ELSE [s |-> place_page_in_frame(swap_out_frame(sel.s, sel.victim),
                                    pid, page_index, sel.victim),
          ret |-> TRUE]

\* access_page, fault on a page never loaded: the last `else'
access_load_new(s, pid, page_index) ==
    IF s.free_frames # <<>>
    THEN [s |-> place_page_in_frame([s EXCEPT !.free_frames = Tail(@)],
                                    pid, page_index, Head(s.free_frames)),
          ret |-> TRUE]
    ELSE load_new_with_victim(select_victim_frame(s), pid, page_index)

\* access_page, the `else' of `if entry["present"]': page fault
access_fault(s, pid, page_index) ==
    IF s.pcbs[pid].tabla_paginas[page_index].swap_slot # None
    THEN access_swap_in(s, pid, page_index)
    ELSE access_load_new(s, pid, page_index)

\* A page-table lookup that counts a page fault for an invalid index.
access_invalido_con_fallo(s, pid, page_index) ==
    IF page_index \notin DOMAIN s.pcbs[pid].tabla_paginas
    THEN [s |-> [s EXCEPT !.total_fallos = @ + 1], ret |-> FALSE]
    ELSE IF s.pcbs[pid].tabla_paginas[page_index].present
    THEN [s |-> access_pt_hit(s, pid, page_index), ret |-> TRUE]
    ELSE access_fault([s EXCEPT !.total_fallos = @ + 1], pid, page_index)

\* access_page from `entry = pcb.tabla_paginas.get(page_index)' on
access_page_table(s, pid, page_index) ==
    IF page_index \notin DOMAIN s.pcbs[pid].tabla_paginas
    THEN [s |-> s, ret |-> FALSE]
    ELSE IF s.pcbs[pid].tabla_paginas[page_index].present
    THEN [s |-> access_pt_hit(s, pid, page_index), ret |-> TRUE]
    ELSE access_fault([s EXCEPT !.total_fallos = @ + 1], pid, page_index)

\* access_page after `frame = self.tlb.lookup(pcb.pid, page_index)'
access_probed(s, look, pid, page_index) ==
    IF look.frame # None
    THEN [s |-> access_tlb_hit([s EXCEPT !.tlb = look.entries], look.frame),
          ret |-> TRUE]
    ELSE access_page_table(s, pid, page_index)

\* access_page after the three counters advanced
access_counted(s, pid, page_index) ==
    IF s.tlb_enabled
    THEN access_probed(s, tlb_lookup(s.tlb, pid, page_index), pid, page_index)
    ELSE access_page_table(s, pid, page_index)

\* An access that does not count itself in total_accesos.
access_sin_contar(s, pid, page_index) ==
    access_counted([s EXCEPT !.access_clock = @ + 1, !.ticks = @ + 1],
                   pid, page_index)

\* An access that advances the access clock but not the tick counter.
access_sin_tick(s, pid, page_index) ==
    access_counted([s EXCEPT !.total_accesos = @ + 1, !.access_clock = @ + 1],
                   pid, page_index)

\* access_page: the simulator afterwards and the value returned
access_page(s, pid, page_index) ==
    access_counted([s EXCEPT !.total_accesos = @ + 1,
                             !.access_clock = @ + 1,
                             !.ticks = @ + 1],
                   pid, page_index)

\* ------------------------------------------------------------ termination
\* terminar_proceso, loop body, `if entry["present"] and entry["frame"] is not None'
liberar_marco(s, pid, page_idx) ==
    IF /\ s.pcbs[pid].tabla_paginas[page_idx].present
       /\ s.pcbs[pid].tabla_paginas[page_idx].frame # None
       /\ 0 <= s.pcbs[pid].tabla_paginas[page_idx].frame
       /\ s.pcbs[pid].tabla_paginas[page_idx].frame < s.num_marcos_ram
       /\ s.ram[s.pcbs[pid].tabla_paginas[page_idx].frame] # EmptyFrame
    THEN [s EXCEPT
            !.ram[s.pcbs[pid].tabla_paginas[page_idx].frame] = EmptyFrame,
            !.free_frames = Append(@, s.pcbs[pid].tabla_paginas[page_idx].frame),
            !.fifo_queue = deque_remove(@, s.pcbs[pid].tabla_paginas[page_idx].frame)]
    ELSE s

\* A release of a swap slot that empties it without queueing its index.
liberar_slot_sin_cola(s, pid, page_idx) ==
    IF /\ s.pcbs[pid].tabla_paginas[page_idx].swap_slot # None
       /\ s.swap[s.pcbs[pid].tabla_paginas[page_idx].swap_slot] # EmptySlot
    THEN [s EXCEPT !.swap[s.pcbs[pid].tabla_paginas[page_idx].swap_slot] = EmptySlot]
    ELSE s

\* terminar_proceso, loop body, `if entry["swap_slot"] is not None'
liberar_slot(s, pid, page_idx) ==
    IF /\ s.pcbs[pid].tabla_paginas[page_idx].swap_slot # None
       /\ 0 <= s.pcbs[pid].tabla_paginas[page_idx].swap_slot
       /\ s.pcbs[pid].tabla_paginas[page_idx].swap_slot < s.num_marcos_swap
       /\ s.swap[s.pcbs[pid].tabla_paginas[page_idx].swap_slot] # EmptySlot
    THEN [s EXCEPT
            !.swap[s.pcbs[pid].tabla_paginas[page_idx].swap_slot] = EmptySlot,
            !.free_swap_slots =
                Append(@, s.pcbs[pid].tabla_paginas[page_idx].swap_slot)]
    ELSE s

\* terminar_proceso: the body of the loop over tabla_paginas for one entry
terminar_one_page(s, pid, page_idx) ==
    liberar_slot(liberar_marco(s, pid, page_idx), pid, page_idx)

RECURSIVE terminar_from(_, _, _)
terminar_from(s, pid, page_idx) ==
    IF page_idx >= s.pcbs[pid].paginas THEN s
    ELSE terminar_from(terminar_one_page(s, pid, page_idx), pid, page_idx + 1)

\* A termination that leaves the TLB alone.
terminar_sin_invalidar(s, pid, motivo) ==
    [s EXCEPT !.pcbs[pid].estado = "TERMINADO",
              !.pcbs[pid].motivo_terminacion = motivo,
              !.procesos_terminados = Append(@, pid)]

\* terminar_proceso after the loop: TLB invalidation, state, terminated list
terminar_registro(s, pid, motivo) ==
    [s EXCEPT !.tlb = IF s.tlb_enabled THEN tlb_invalidate_pid(@, pid) ELSE @,
              !.pcbs[pid].estado = "TERMINADO",
              !.pcbs[pid].motivo_terminacion = motivo,
              !.procesos_terminados = Append(@, pid)]

\* terminar_proceso
terminar_proceso(s, pid, motivo) ==
    terminar_registro(terminar_from(s, pid, 0), pid, motivo)

\* terminar_proceso(self.proceso_actual, ...) ; self.proceso_actual = None
terminar_actual(s, motivo) ==
    [terminar_proceso(s, s.proceso_actual, motivo) EXCEPT !.proceso_actual = None]

\* forzar_terminacion
forzar_terminacion(s, pid_a_matar) ==
    IF InSeq(s.cola_listos, pid_a_matar)
    THEN terminar_proceso(
           [s EXCEPT !.cola_listos = deque_remove(@, pid_a_matar)],
           pid_a_matar, "Forzada por Usuario")
    ELSE IF InSeq(s.cola_bloqueados, pid_a_matar)
    THEN terminar_proceso(
           [s EXCEPT !.cola_bloqueados = deque_remove(@, pid_a_matar)],
           pid_a_matar, "Forzada por Usuario")
    ELSE IF s.proceso_actual # None /\ s.proceso_actual = pid_a_matar
    THEN terminar_actual(s, "Forzada por Usuario")
    ELSE s

\* A suspension of a READY process that also takes its frames and slots away.
suspender_y_liberar(s, pid) ==
    IF s.proceso_actual # None /\ s.proceso_actual = pid
    THEN [s EXCEPT !.pcbs[pid].estado = "ESPERANDO",
                   !.cola_bloqueados = Append(@, pid),
                   !.proceso_actual = None]
    ELSE IF InSeq(s.cola_listos, pid)
    THEN [terminar_from(s, pid, 0)
            EXCEPT !.cola_listos = deque_remove(@, pid),
                   !.pcbs[pid].estado = "ESPERANDO",
                   !.cola_bloqueados = Append(@, pid)]
    ELSE s

\* suspender_proceso
suspender_proceso(s, pid) ==
    IF s.proceso_actual # None /\ s.proceso_actual = pid
    THEN [s EXCEPT !.pcbs[pid].estado = "ESPERANDO",
                   !.cola_bloqueados = Append(@, pid),
                   !.proceso_actual = None]
    ELSE IF InSeq(s.cola_listos, pid)
    THEN [s EXCEPT !.cola_listos = deque_remove(@, pid),
                   !.pcbs[pid].estado = "ESPERANDO",
                   !.cola_bloqueados = Append(@, pid)]
    ELSE s

\* reanudar_proceso
reanudar_proceso(s, pid) ==
    IF InSeq(s.cola_bloqueados, pid)
    THEN [s EXCEPT !.cola_bloqueados = deque_remove(@, pid),
                   !.pcbs[pid].estado = "LISTO",
                   !.cola_listos = Append(@, pid)]
    ELSE s

\* ------------------------------------------------------------- scheduling
\* A dispatch that leaves the dispatched PCB in the READY queue as well.
planificar_sin_sacar(s) ==
    IF s.proceso_actual = None /\ s.cola_listos # <<>>
    THEN [s EXCEPT !.proceso_actual = Head(s.cola_listos),
                   !.pcbs[Head(s.cola_listos)].estado = "EJECUTANDO"]
    ELSE s

\* planificar
planificar(s) ==
    IF s.proceso_actual = None /\ s.cola_listos # <<>>
    THEN [s EXCEPT !.proceso_actual = Head(s.cola_listos),
                   !.cola_listos = Tail(@),
                   !.pcbs[Head(s.cola_listos)].estado = "EJECUTANDO"]
    ELSE s

\* The result of access_page as the caller sees it.
RetStr(b) == IF b THEN "True" ELSE "False"

\* ejecutar_ciclo, `if not self.proceso_actual: self.planificar()'; an
\* exception raised by the arrival has ended the call before.
planificar_si_ocioso(s) ==
    IF s.raised # "" THEN s
    ELSE IF s.proceso_actual = None THEN planificar(s)
    ELSE s

\* ejecutar_ciclo up to the dispatch: clocks, arrival, planificar.  `arrival'
\* is the outcome of random.random() < arrival_prob, tam_kb and instr are
\* the draws of crear_proceso_aleatorio.
ejecutar_hasta_planificar(s, arrival, tam_kb, instr) ==
    planificar_si_ocioso(
      IF arrival
      THEN crear_proceso([s EXCEPT !.ticks = @ + 1, !.access_clock = @ + 1],
                         tam_kb, instr)
      ELSE [s EXCEPT !.ticks = @ + 1, !.access_clock = @ + 1])

\* ejecutar_ciclo, `p.instrucciones_restantes -= 1' and the termination test
consumir_instruccion(s) ==
    IF s.pcbs[s.proceso_actual].instrucciones_restantes - 1 <= 0
    THEN terminar_actual(
           [s EXCEPT !.pcbs[s.proceso_actual].instrucciones_restantes = @ - 1],
           "Finalizacion Normal")
    ELSE [s EXCEPT !.pcbs[s.proceso_actual].instrucciones_restantes = @ - 1]

\* ejecutar_ciclo after `hit = self.access_page(p, page_to_access)'
despues_de_acceso(acc) ==
    IF acc.s.raised # "" THEN [s |-> acc.s, hit |-> "None"]
    ELSE [s |-> consumir_instruccion(acc.s), hit |-> RetStr(acc.ret)]

\* ejecutar_ciclo from `p = self.proceso_actual' on: one reference to
\* page_to_access, one instruction consumed.  `hit' is access_page's result
\* ("None" when it was not called).
ejecutar_referencia(s, page_to_access) ==
    IF s.raised # "" \/ s.proceso_actual = None THEN [s |-> s, hit |-> "None"]
    ELSE IF s.pcbs[s.proceso_actual].paginas = 0
    THEN [s |-> terminar_actual(s, "Sin paginas"), hit |-> "None"]
    ELSE despues_de_acceso(access_page(s, s.proceso_actual, page_to_access))

\* ejecutar_ciclo
ejecutar_ciclo(s, arrival, tam_kb, instr, page_to_access) ==
    ejecutar_referencia(ejecutar_hasta_planificar(s, arrival, tam_kb, instr),
                        page_to_access)

\* The pages random.randint(0, p.paginas - 1) can draw once ejecutar_ciclo
\* has dispatched, in simulator s ({0} stands for "no draw" when no page is
\* referenced).
paginas_sorteables(s) ==
    IF s.raised # "" \/ s.proceso_actual = None THEN {0}
    ELSE IF s.pcbs[s.proceso_actual].paginas = 0 THEN {0}
    ELSE 0 .. (s.pcbs[s.proceso_actual].paginas - 1)

\* The sizes crear_proceso_aleatorio can draw:
\* random.randint(1, max(1, min(max_rand_mem, ram_kb + swap_kb)))
tam_aleatorios(s, sizes) ==
    {x \in sizes : 1 <= x /\ x <= Max(1, Min(MaxRandMemKb, s.ram_kb + s.swap_kb))}

\* ------------------------------------------------------------------ state
VARIABLES
    \* configuration, fixed by SimuladorOS.__init__
    ram_kb, swap_kb, page_kb, replacement_algo, tlb_enabled, tlb_size,
    num_marcos_ram, num_marcos_swap,
    \* physical structures and replacement metadata
    ram, free_frames, swap, free_swap_slots, fifo_queue, clock_pointer,
    \* processes: pcbs[pid] is the PCB object, the queues hold pids
    cola_listos, cola_bloqueados, procesos_terminados, proceso_actual,
    contador_pid, pcbs,
    \* TLB.entries
    tlb,
    \* metrics and clocks
    total_accesos, total_fallos, swap_ins, swap_outs, ticks, access_clock,
    \* the exception that ended the last call ("" if it returned)
    raised,
    \* a second simulator, built with tlb_enabled = False and otherwise the
    \* same arguments, that receives the same calls
    twin,
    \* the process sizes (KB) the driver asks for in this run
    tamanos

vars == <<ram_kb, swap_kb, page_kb, replacement_algo, tlb_enabled, tlb_size,
          num_marcos_ram, num_marcos_swap,
          ram, free_frames, swap, free_swap_slots, fifo_queue, clock_pointer,
          cola_listos, cola_bloqueados, procesos_terminados, proceso_actual,
          contador_pid, pcbs, tlb,
          total_accesos, total_fallos, swap_ins, swap_outs, ticks, access_clock,
          raised, twin, tamanos>>

\* The simulator under study as one record.
Cur ==
    [ram_kb |-> ram_kb, swap_kb |-> swap_kb, page_kb |-> page_kb,
     replacement_algo |-> replacement_algo, tlb_enabled |-> tlb_enabled,
     tlb_size |-> tlb_size,
     num_marcos_ram |-> num_marcos_ram, num_marcos_swap |-> num_marcos_swap,
     ram |-> ram, free_frames |-> free_frames,
     swap |-> swap, free_swap_slots |-> free_swap_slots,
     fifo_queue |-> fifo_queue, clock_pointer |-> clock_pointer,
     cola_listos |-> cola_listos, cola_bloqueados |-> cola_bloqueados,
     procesos_terminados |-> procesos_terminados,
     proceso_actual |-> proceso_actual,
     contador_pid |-> contador_pid, pcbs |-> pcbs, tlb |-> tlb,
     total_accesos |-> total_accesos, total_fallos |-> total_fallos,
     swap_ins |-> swap_ins, swap_outs |-> swap_outs,
     ticks |-> ticks, access_clock |-> access_clock, raised |-> raised]

\* The variables hold simulator record s.
Holds(s) ==
    /\ ram_kb = s.ram_kb /\ swap_kb = s.swap_kb /\ page_kb = s.page_kb
    /\ replacement_algo = s.replacement_algo
    /\ tlb_enabled = s.tlb_enabled /\ tlb_size = s.tlb_size
    /\ num_marcos_ram = s.num_marcos_ram /\ num_marcos_swap = s.num_marcos_swap
    /\ ram = s.ram /\ free_frames = s.free_frames
    /\ swap = s.swap /\ free_swap_slots = s.free_swap_slots
    /\ fifo_queue = s.fifo_queue /\ clock_pointer = s.clock_pointer
    /\ cola_listos = s.cola_listos /\ cola_bloqueados = s.cola_bloqueados
    /\ procesos_terminados = s.procesos_terminados
    /\ proceso_actual = s.proceso_actual
    /\ contador_pid = s.contador_pid /\ pcbs = s.pcbs /\ tlb = s.tlb
    /\ total_accesos = s.total_accesos /\ total_fallos = s.total_fallos
    /\ swap_ins = s.swap_ins /\ swap_outs = s.swap_outs
    /\ ticks = s.ticks /\ access_clock = s.access_clock
    /\ raised = s.raised

\* The next state holds simulator record s.
Commit(s) ==
    /\ ram_kb' = s.ram_kb /\ swap_kb' = s.swap_kb /\ page_kb' = s.page_kb
    /\ replacement_algo' = s.replacement_algo
    /\ tlb_enabled' = s.tlb_enabled /\ tlb_size' = s.tlb_size
    /\ num_marcos_ram' = s.num_marcos_ram /\ num_marcos_swap' = s.num_marcos_swap
    /\ ram' = s.ram /\ free_frames' = s.free_frames
    /\ swap' = s.swap /\ free_swap_slots' = s.free_swap_slots
    /\ fifo_queue' = s.fifo_queue /\ clock_pointer' = s.clock_pointer
    /\ cola_listos' = s.cola_listos /\ cola_bloqueados' = s.cola_bloqueados
    /\ procesos_terminados' = s.procesos_terminados
    /\ proceso_actual' = s.proceso_actual
    /\ contador_pid' = s.contador_pid /\ pcbs' = s.pcbs /\ tlb' = s.tlb
    /\ total_accesos' = s.total_accesos /\ total_fallos' = s.total_fallos
    /\ swap_ins' = s.swap_ins /\ swap_outs' = s.swap_outs
    /\ ticks' = s.ticks /\ access_clock' = s.access_clock
    /\ raised' = s.raised

\* ------------------------------------------------------------ observers
\* map_utilization counts the frames that are not None; these count the
\* empty frames and the empty slots of simulator s.
MarcosVacios(s) == Cardinality({f \in DOMAIN s.ram : s.ram[f] = EmptyFrame})
SlotsVacios(s) == Cardinality({x \in DOMAIN s.swap : s.swap[x] = EmptySlot})

\* The simulator (the twin) as a call finds it: no exception pending.
Call == [Cur EXCEPT !.raised = ""]
TwinCall == [twin EXCEPT !.raised = ""]

LivePids == {p \in 1 .. Len(pcbs) : pcbs[p].estado # "TERMINADO"}

\* The page indexes the driver passes to access_page: every page of the
\* largest process of the run, and one index past it.
PageIndexes ==
    0 .. (CHOOSE n \in {ceil_div(x, page_kb) : x \in tamanos} :
            \A x \in tamanos : ceil_div(x, page_kb) <= n)

\* ------------------------------------------------------------------- Init
\* SimuladorOS(...) with nf frames and ns slots of PageKb, and the sizes the
\* driver will ask for.
InitWith(nfs, nss, algos, tlbs, sizes) ==
    \E nf \in nfs, ns \in nss, algo \in algos, tlb_on \in tlbs :
      \E tlb_sz \in (IF tlb_on THEN 1 .. MaxTlbSize ELSE {MaxTlbSize}) :
        /\ Holds(NewSim(nf * PageKb, ns * PageKb, PageKb, algo, tlb_on, tlb_sz))
        /\ twin = NewSim(nf * PageKb, ns * PageKb, PageKb, algo, FALSE, tlb_sz)
        /\ tamanos = sizes

\* Sizes of 0, 1, ..., MaxPaginas pages, none a multiple of the page size.
Tamanos == {0} \cup {k * PageKb - 100 : k \in 1 .. MaxPaginas}

Init == InitWith(1 .. MaxFrames, 0 .. MaxSlots, Algos, BOOLEAN, Tamanos)

\* ---------------------------------------------------------------- actions
\* Menu option 1: crear_proceso(nombre, tam_kb, prioridad, instr)
CrearProceso ==
    /\ contador_pid <= MaxProcs
    /\ \E tam_kb \in tamanos, instr \in 1 .. MaxInstr :
         /\ Commit(crear_proceso(Call, tam_kb, instr))
         /\ twin' = crear_proceso(TwinCall, tam_kb, instr)
    /\ UNCHANGED tamanos

\* access_page(pcb, page_index) on a live PCB, page_index in or out of range
AccessPage ==
    /\ ticks < MaxTicks
    /\ \E pid \in LivePids, page_index \in PageIndexes :
         /\ Commit(access_page(Call, pid, page_index).s)
         /\ twin' = access_page(TwinCall, pid, page_index).s
    /\ UNCHANGED tamanos

\* ejecutar_ciclo with its draws fixed, on the simulator and on the twin
Ciclo(arrival, tam_kb, instr) ==
    \E page \in paginas_sorteables(ejecutar_hasta_planificar(Call, arrival, tam_kb, instr)) :
       /\ Commit(ejecutar_ciclo(Call, arrival, tam_kb, instr, page).s)
       /\ twin' = ejecutar_ciclo(TwinCall, arrival, tam_kb, instr, page).s

\* Menu option 2: ejecutar_ciclo(), without and with a random arrival
EjecutarCiclo ==
    /\ ticks < MaxTicks
    /\ \/ Ciclo(FALSE, 0, 1)
       \/ /\ contador_pid <= MaxProcs
          /\ \E tam_kb \in tam_aleatorios(Call, tamanos), instr \in 1 .. Max(1, MaxInstr) :
               Ciclo(TRUE, tam_kb, instr)
    /\ UNCHANGED tamanos

\* Menu option 5: forzar_terminacion(pid), known pid or not
ForzarTerminacion ==
    /\ \E pid \in 1 .. MaxProcs :
         /\ Commit(forzar_terminacion(Call, pid))
         /\ twin' = forzar_terminacion(TwinCall, pid)
    /\ UNCHANGED tamanos

\* Menu option 3: suspender_proceso(pid)
SuspenderProceso ==
    /\ \E pid \in 1 .. MaxProcs :
         /\ Commit(suspender_proceso(Call, pid))
         /\ twin' = suspender_proceso(TwinCall, pid)
    /\ UNCHANGED tamanos

\* Menu option 4: reanudar_proceso(pid)
ReanudarProceso ==
    /\ \E pid \in 1 .. MaxProcs :
         /\ Commit(reanudar_proceso(Call, pid))
         /\ twin' = reanudar_proceso(TwinCall, pid)
    /\ UNCHANGED tamanos

Next ==
    \/ CrearProceso
    \/ AccessPage
    \/ EjecutarCiclo
    \/ ForzarTerminacion
    \/ SuspenderProceso
    \/ ReanudarProceso

Spec == Init /\ [][Next]_vars

\* One frame and one swap slot (ram = swap = page = 256 KB); every process
\* asks for four pages.
InitExhaust == InitWith({1}, {1}, Algos, BOOLEAN, {4 * PageKb})

SpecExhaust == InitExhaust /\ [][Next]_vars

\* No frame at all: ram_kb < page_kb (ram_kb = 0 or one KB short of a
\* page), with up to MaxSlots + 1 swap slots.
InitZeroFrames ==
    \E rk \in {0, PageKb - 1}, ns \in 0 .. (MaxSlots + 1), algo \in Algos,
       tlb_on \in BOOLEAN :
        /\ Holds(NewSim(rk, ns * PageKb, PageKb, algo, tlb_on, MaxTlbSize))
        /\ twin = NewSim(rk, ns * PageKb, PageKb, algo, FALSE, MaxTlbSize)
        /\ tamanos = Tamanos

SpecZeroFrames == InitZeroFrames /\ [][Next]_vars

\* Small sizes: page_kb in 1 .. MaxPageKb, ram_kb from page_kb to MaxRamKb
\* (multiples of the page size and not), one swap slot; every process asks
\* for exactly ram_kb.
InitExactFit ==
    \E pk \in 1 .. MaxPageKb, algo \in Algos, tlb_on \in BOOLEAN :
      \E rk \in pk .. MaxRamKb :
        /\ Holds(NewSim(rk, pk, pk, algo, tlb_on, MaxTlbSize))
        /\ twin = NewSim(rk, pk, pk, algo, FALSE, MaxTlbSize)
        /\ tamanos = {rk}

SpecExactFit == InitExactFit /\ [][Next]_vars

\* The scenario configurations: two frames, two or four swap slots, and
\* processes of three pages (768 KB).
InitScenario == InitWith({2}, {2, 4}, Algos, BOOLEAN, {3 * PageKb})

SpecScenario == InitScenario /\ [][Next]_vars

\* Three frames, no or one swap slot, a TLB of one or two entries, and
\* processes of one page or of three pages.
InitThreeFrames ==
    \E ns \in {0, 1}, algo \in Algos, tlb_on \in BOOLEAN :
      \E tlb_sz \in (IF tlb_on THEN {1, 2} ELSE {2}) :
        /\ Holds(NewSim(3 * PageKb, ns * PageKb, PageKb, algo, tlb_on, tlb_sz))
        /\ twin = NewSim(3 * PageKb, ns * PageKb, PageKb, algo, FALSE, tlb_sz)
        /\ tamanos = {PageKb, 3 * PageKb}

SpecThreeFrames == InitThreeFrames /\ [][Next]_vars

\* ================================================================ claims
\* How often x occurs in deque q.
Occurrences(q, x) == Cardinality({i \in 1 .. Len(q) : q[i] = x})

\* PTE of (pid, page) is Resident in frame f / Swapped in slot x / Unmapped.
Resident(s, pid, page, f) ==
    /\ s.pcbs[pid].tabla_paginas[page].present
    /\ s.pcbs[pid].tabla_paginas[page].frame = f
Swapped(s, pid, page, x) ==
    /\ ~s.pcbs[pid].tabla_paginas[page].present
    /\ s.pcbs[pid].tabla_paginas[page].swap_slot = x
Unmapped(s, pid, page) ==
    /\ ~s.pcbs[pid].tabla_paginas[page].present
    /\ s.pcbs[pid].tabla_paginas[page].swap_slot = None

Holding(cell, pid, page) == cell.pid = pid /\ cell.page = page

\* C1: a frame is empty iff its index is in the free-frame queue, and then
\* exactly once; hence occupied frames + queue length = num_frames.
C1_FreeFrameQueueExact ==
    /\ \A f \in DOMAIN ram :
         /\ (ram[f] = EmptyFrame) <=> (Occurrences(free_frames, f) >= 1)
         /\ Occurrences(free_frames, f) <= 1
    /\ (num_marcos_ram - MarcosVacios(Cur)) + Len(free_frames) = num_marcos_ram

\* C2: every page of every live process is exactly one of: Resident in a
\* frame that holds exactly that page, Swapped in a slot that holds exactly
\* that page, or Unmapped.
C2_LivePagesBacked ==
    \A pid \in LivePids : \A page \in DOMAIN pcbs[pid].tabla_paginas :
       LET e == pcbs[pid].tabla_paginas[page] IN
       \/ /\ e.present /\ e.frame \in DOMAIN ram
          /\ Holding(ram[e.frame], pid, page)
       \/ /\ ~e.present /\ e.swap_slot \in DOMAIN swap
          /\ Holding(swap[e.swap_slot], pid, page)
       \/ Unmapped(Cur, pid, page)

\* C3: a frame that holds (pid, page) belongs to an existing, non-terminated
\* process whose PTE for that page is Resident with that frame; a swap slot
\* that holds (pid, page) belongs to a PTE that is non-present with that slot.
C3_ContentsHaveOwner ==
    /\ \A f \in DOMAIN ram : ram[f] # EmptyFrame =>
         /\ ram[f].pid \in LivePids
         /\ ram[f].page \in DOMAIN pcbs[ram[f].pid].tabla_paginas
         /\ Resident(Cur, ram[f].pid, ram[f].page, f)
    /\ \A x \in DOMAIN swap : swap[x] # EmptySlot =>
         /\ swap[x].pid \in 1 .. Len(pcbs)
         /\ swap[x].page \in DOMAIN pcbs[swap[x].pid].tabla_paginas
         /\ Swapped(Cur, swap[x].pid, swap[x].page, x)

\* Pages have been swapped out and swapped in, and a frame and a
\* swap slot are both occupied.
C3_Witness ==
    /\ swap_outs >= 1 /\ swap_ins >= 1
    /\ \E f \in DOMAIN ram : ram[f] # EmptyFrame
    /\ \E x \in DOMAIN swap : swap[x] # EmptySlot

\* C4: with the TLB enabled, every TLB entry (pid, page) -> f names a frame
\* that currently holds (pid, page).
C4_TlbCoherent ==
    tlb_enabled =>
      \A i \in 1 .. Len(tlb) :
         /\ tlb[i].frame \in DOMAIN ram
         /\ Holding(ram[tlb[i].frame], tlb[i].pid, tlb[i].page)

\* C9: once a process is terminated, no frame, no swap slot and no TLB entry
\* carries its PID, in that state and in every later one.
C9_TerminatedHoldsNothing ==
    \A i \in 1 .. Len(procesos_terminados) :
       LET pid == procesos_terminados[i] IN
       /\ \A f \in DOMAIN ram : ram[f].pid # pid
       /\ \A x \in DOMAIN swap : swap[x].pid # pid
       /\ \A j \in 1 .. Len(tlb) : tlb[j].pid # pid

\* With the TLB on, a process that owned a resident page has run to its
\* normal end while another process holds a frame.
C9_Witness ==
    /\ tlb_enabled
    /\ \E i \in 1 .. Len(procesos_terminados) :
         /\ pcbs[procesos_terminados[i]].motivo_terminacion = "Finalizacion Normal"
         /\ \E page \in DOMAIN pcbs[procesos_terminados[i]].tabla_paginas :
              pcbs[procesos_terminados[i]].tabla_paginas[page].present
    /\ \E f \in DOMAIN ram : ram[f] # EmptyFrame

\* A frame that was occupied in `pre' holds the same page in `post', and the
\* PTE of that page is the same in both.
VictimsKept(pre, post) ==
    \A f \in DOMAIN pre.ram : pre.ram[f] # EmptyFrame =>
       /\ Holding(post.ram[f], pre.ram[f].pid, pre.ram[f].page)
       /\ post.pcbs[pre.ram[f].pid].tabla_paginas[pre.ram[f].page]
            = pre.pcbs[pre.ram[f].pid].tabla_paginas[pre.ram[f].page]

\* C5: with no free swap slot an eviction fails and the victim stays: after
\* an admit or an access made in a state without a free slot, every frame
\* that was occupied holds the same page as before, under the same PTE.
C5_NoSlotVictimStays ==
    free_swap_slots = <<>> =>
      /\ \A tam_kb \in tamanos, instr \in 1 .. MaxInstr :
           VictimsKept(Cur, crear_proceso(Call, tam_kb, instr))
      /\ \A pid \in LivePids : \A page \in DOMAIN pcbs[pid].tabla_paginas :
           VictimsKept(Cur, access_page(Call, pid, page).s)

\* C6: an access to a non-resident page in a state with no free frame and no
\* free swap slot returns False and leaves that PTE, the frames and the
\* swap slots as they were.
C6_UnresolvedFaultChangesNothing ==
    (free_frames = <<>> /\ free_swap_slots = <<>>) =>
      \A pid \in LivePids : \A page \in DOMAIN pcbs[pid].tabla_paginas :
         ~pcbs[pid].tabla_paginas[page].present =>
           LET r == access_page(Call, pid, page) IN
           /\ r.ret = FALSE
           /\ r.s.pcbs[pid].tabla_paginas[page] = pcbs[pid].tabla_paginas[page]
           /\ \A f \in DOMAIN ram : Holding(r.s.ram[f], ram[f].pid, ram[f].page)
           /\ r.s.swap = swap
           /\ r.s.total_accesos = total_accesos + 1
           /\ r.s.total_fallos = total_fallos + 1

\* The state right after the first admission into the empty system.
FirstAdmitted ==
    /\ contador_pid = 2 /\ ticks = 0
    /\ pcbs[1].estado # "TERMINADO"

\* C7: with one frame and one slot, a 4-page process admitted into the empty
\* system ends with page 0 Resident in frame 0, page 1 Swapped in slot 0 and
\* pages 2 and 3 Unmapped, and it is READY.
C7_ExhaustionPlacement ==
    (FirstAdmitted /\ num_marcos_ram = 1 /\ num_marcos_swap = 1
       /\ pcbs[1].paginas = 4 /\ cola_listos = <<1>>) =>
      /\ Resident(Cur, 1, 0, 0) /\ Holding(ram[0], 1, 0)
      /\ Swapped(Cur, 1, 1, 0) /\ Holding(swap[0], 1, 1)
      /\ Unmapped(Cur, 1, 2)
      /\ Unmapped(Cur, 1, 3)
      /\ pcbs[1].estado = "LISTO"

\* The simulator after crear_proceso(tam_kb, instr) and then
\* forzar_terminacion of the PID it returned.
AdmitThenKill(s, tam_kb, instr) ==
    forzar_terminacion(crear_proceso(s, tam_kb, instr), s.contador_pid)

\* C8: from every state, admit followed at once by the forced termination
\* of the new PID restores the number of free frames (empty frames and
\* free-frame queue length) and of free swap slots (empty slots and
\* free-slot queue length).
C8_RoundTripRestoresCounts ==
    \A tam_kb \in tamanos, instr \in 1 .. MaxInstr :
       /\ MarcosVacios(AdmitThenKill(Call, tam_kb, instr)) = MarcosVacios(Cur)
       /\ Len(AdmitThenKill(Call, tam_kb, instr).free_frames) = Len(free_frames)
       /\ SlotsVacios(AdmitThenKill(Call, tam_kb, instr)) = SlotsVacios(Cur)
       /\ Len(AdmitThenKill(Call, tam_kb, instr).free_swap_slots)
            = Len(free_swap_slots)

\* The page tables of two simulators agree on where every page is.
SameResidency(s, w) ==
    /\ Len(s.pcbs) = Len(w.pcbs)
    /\ \A pid \in 1 .. Len(s.pcbs) :
         s.pcbs[pid].tabla_paginas = w.pcbs[pid].tabla_paginas

\* C10: the simulator with the TLB and its twin without it, given the same
\* calls, hold the same pages in the same frames and slots, the same page
\* tables and the same counters, and answer every access alike.
C10_TlbTransparent ==
    tlb_enabled =>
      /\ \A f \in DOMAIN ram : Holding(twin.ram[f], ram[f].pid, ram[f].page)
      /\ swap = twin.swap
      /\ SameResidency(Cur, twin)
      /\ total_accesos = twin.total_accesos
      /\ total_fallos = twin.total_fallos
      /\ swap_ins = twin.swap_ins
      /\ swap_outs = twin.swap_outs
      /\ \A pid \in LivePids : \A page \in PageIndexes :
           access_page(Call, pid, page).ret = access_page(TwinCall, pid, page).ret

\* C11: a swap slot is empty iff its index is in the free-slot queue, and
\* then exactly once; hence occupied slots + queue length = num_slots.
C11_FreeSlotQueueExact ==
    /\ \A x \in DOMAIN swap :
         /\ (swap[x] = EmptySlot) <=> (Occurrences(free_swap_slots, x) >= 1)
         /\ Occurrences(free_swap_slots, x) <= 1
    /\ \A i \in 1 .. Len(free_swap_slots) : free_swap_slots[i] \in DOMAIN swap
    /\ (num_marcos_swap - SlotsVacios(Cur)) + Len(free_swap_slots) = num_marcos_swap

\* A slot has been taken by a swap-out and given back by a swap-in, and the
\* slot is in use again.
C11_Witness ==
    /\ swap_ins >= 1 /\ swap_outs >= 2
    /\ \E x \in DOMAIN swap : swap[x] # EmptySlot

\* C12: under FIFO the FIFO queue holds exactly the indices of the occupied
\* frames, each exactly once.
C12_FifoQueueExact ==
    replacement_algo = "FIFO" =>
      \A f \in DOMAIN ram :
         Occurrences(fifo_queue, f) = (IF ram[f] = EmptyFrame THEN 0 ELSE 1)

\* C17: total_accesos >= total_fallos >= 0, swap_ins <= total_fallos and
\* swap_outs >= 0.
C17_MetricsOrdered ==
    /\ total_accesos >= total_fallos
    /\ total_fallos >= 0
    /\ swap_ins <= total_fallos
    /\ swap_outs >= 0

\* A hit and a fault served from swap have both happened.
C17_Witness ==
    /\ total_accesos > total_fallos
    /\ total_fallos >= 1
    /\ swap_ins >= 1
    /\ swap_outs >= 1

\* C18: no PTE of a live process is present with a swap slot, and no
\* (pid, page) of a live process is in a frame and in a slot at once.
C18_NeverResidentAndSwapped ==
    /\ \A pid \in LivePids : \A page \in DOMAIN pcbs[pid].tabla_paginas :
         ~(/\ pcbs[pid].tabla_paginas[page].present
           /\ pcbs[pid].tabla_paginas[page].swap_slot # None)
    /\ \A f \in DOMAIN ram : \A x \in DOMAIN swap :
         (ram[f] # EmptyFrame /\ ram[f].pid \in LivePids) =>
            ~Holding(swap[x], ram[f].pid, ram[f].page)

\* A live process has one page resident and another in swap, after a page
\* came back from swap.
C18_Witness ==
    /\ swap_ins >= 1
    /\ \E pid \in LivePids :
         /\ \E f \in DOMAIN ram : ram[f].pid = pid
         /\ \E x \in DOMAIN swap : swap[x].pid = pid

\* C13: with num_frames = 0, under every policy, an admit raises nothing and
\* puts the pages of the new process, in page order, into the free swap
\* slots in queue order (PTE Swapped, swap_outs incremented per page) until
\* none is left; the remaining pages stay Unmapped.
C13_ZeroFramesAdmitToSwap ==
    num_marcos_ram = 0 =>
      \A tam_kb \in tamanos, instr \in 1 .. MaxInstr :
         /\ crear_proceso(Call, tam_kb, instr).raised = ""
         /\ Len(crear_proceso(Call, tam_kb, instr).pcbs) = contador_pid
         /\ \A page \in 0 .. (ceil_div(tam_kb, page_kb) - 1) :
              IF page < Len(free_swap_slots)
              THEN /\ Swapped(crear_proceso(Call, tam_kb, instr), contador_pid,
                              page, free_swap_slots[page + 1])
                   /\ Holding(crear_proceso(Call, tam_kb, instr)
                                .swap[free_swap_slots[page + 1]],
                              contador_pid, page)
              ELSE Unmapped(crear_proceso(Call, tam_kb, instr), contador_pid, page)
         /\ crear_proceso(Call, tam_kb, instr).swap_outs
              = swap_outs + Min(ceil_div(tam_kb, page_kb), Len(free_swap_slots))

\* A process of exactly ram_kb KB is the only process ever admitted, and it
\* is alive.
SoloExactFit ==
    /\ contador_pid = 2
    /\ pcbs[1].tamano_kb = ram_kb
    /\ pcbs[1].estado # "TERMINADO"

\* Every page of process 1 is Resident in a frame that holds it, and no
\* access has faulted.
AllResidentNoFaults ==
    /\ \A page \in DOMAIN pcbs[1].tabla_paginas :
         /\ pcbs[1].tabla_paginas[page].present
         /\ pcbs[1].tabla_paginas[page].frame \in DOMAIN ram
         /\ Holding(ram[pcbs[1].tabla_paginas[page].frame], 1, page)
    /\ total_fallos = 0

\* C14 as stated: for every ram_kb >= page_kb >= 1, multiple of page_kb or
\* not, a process of exactly ram_kb admitted alone has all its pages
\* Resident, and accesses to its pages never fault.
C14_ExactFitAlways ==
    SoloExactFit => AllResidentNoFaults

\* C14 amended: when ram_kb is a multiple of page_kb, a process of exactly
\* ram_kb admitted alone has all its pages Resident, and accesses to its
\* pages never fault.
C14_ExactFitWholePages ==
    (SoloExactFit /\ ram_kb % page_kb = 0) => AllResidentNoFaults

\* The lone exact-fit process has several pages and has been accessed twice.
C14_Witness ==
    /\ SoloExactFit /\ ram_kb % page_kb = 0
    /\ pcbs[1].paginas >= 2
    /\ total_accesos >= 2

\* The simulator after access_page on pages p1, p2, p3 of process pid, in
\* that order.
AfterAccesses3(s, pid, p1, p2, p3) ==
    access_page(access_page(access_page(s, pid, p1).s, pid, p2).s, pid, p3).s

\* C15: with 2 frames, 2 slots and FIFO, admitting a 768 KB process into the
\* empty system leaves pages 0 and 1 Resident in frames 0 and 1 and page 2
\* Swapped in slot 0 with swap_outs = 1; accessing pages 0, 1, 2 then faults
\* once, on page 2, which sends page 0 to slot 1 and brings page 2 into
\* frame 0; the counters end at accesses 3, faults 1, swap_ins 1, swap_outs 2.
C15_BasicFaultAndSwap ==
    (contador_pid = 1 /\ num_marcos_ram = 2 /\ num_marcos_swap = 2
       /\ replacement_algo = "FIFO") =>
      LET s1 == crear_proceso(Call, 3 * PageKb, 10)
          s2 == access_page(access_page(s1, 1, 0).s, 1, 1).s
          s3 == AfterAccesses3(s1, 1, 0, 1, 2)
      IN /\ Resident(s1, 1, 0, 0) /\ Resident(s1, 1, 1, 1)
         /\ Swapped(s1, 1, 2, 0) /\ s1.swap_outs = 1
         /\ s2.total_fallos = 0
         /\ Swapped(s3, 1, 0, 1) /\ Resident(s3, 1, 2, 0)
         /\ s3.total_accesos = 3 /\ s3.total_fallos = 1
         /\ s3.swap_ins = 1 /\ s3.swap_outs = 2

\* C16: with 2 frames and 4 slots, under each policy, a 3-page process
\* admitted into the empty system and accessed at pages 0, 1, 2, 0 faults
\* exactly 4 times, and the third access evicts the frame holding page 0.
C16_AlgorithmScenario ==
    (contador_pid = 1 /\ num_marcos_ram = 2 /\ num_marcos_swap = 4) =>
      LET s1 == crear_proceso(Call, 3 * PageKb, 10)
          s2 == access_page(access_page(s1, 1, 0).s, 1, 1).s
          s3 == AfterAccesses3(s1, 1, 0, 1, 2)
          s4 == access_page(s3, 1, 0).s
      IN /\ s4.total_fallos = 4
         /\ \E f \in DOMAIN ram :
              /\ Holding(s2.ram[f], 1, 0)
              /\ Holding(s3.ram[f], 1, 2)

\* C19: access_page with a page index outside the process's pages returns
\* False and changes only total_accesos, access_clock and ticks.
C19_InvalidAccessOnlyCounts ==
    \A pid \in LivePids :
      \A page \in (PageIndexes \cup {-1}) \ DOMAIN pcbs[pid].tabla_paginas :
         /\ access_page(Call, pid, page).ret = FALSE
         /\ access_page(Call, pid, page).s
              = [Call EXCEPT !.total_accesos = @ + 1,
                             !.access_clock = @ + 1,
                             !.ticks = @ + 1]

\* The only process ever admitted has no page at all and is alive, and it
\* has been accessed: every access so far was to an invalid index.
C19_Witness ==
    /\ contador_pid = 2
    /\ pcbs[1].paginas = 0
    /\ pcbs[1].estado # "TERMINADO"
    /\ total_accesos >= 1

\* `post' differs from `pre' at most in the two queues, the running slot
\* and the estado of PCBs, and holds the same PIDs in queues and slot.
SoloColas(pre, post) ==
    /\ [post EXCEPT !.cola_listos = pre.cola_listos,
                    !.cola_bloqueados = pre.cola_bloqueados,
                    !.proceso_actual = pre.proceso_actual,
                    !.pcbs = pre.pcbs] = pre
    /\ DOMAIN post.pcbs = DOMAIN pre.pcbs
    /\ \A p \in DOMAIN pre.pcbs :
         [post.pcbs[p] EXCEPT !.estado = pre.pcbs[p].estado] = pre.pcbs[p]
    /\ Len(post.cola_listos) + Len(post.cola_bloqueados)
         + (IF post.proceso_actual = None THEN 0 ELSE 1)
       = Len(pre.cola_listos) + Len(pre.cola_bloqueados)
         + (IF pre.proceso_actual = None THEN 0 ELSE 1)

\* C20: suspender_proceso and reanudar_proceso change only the queues, the
\* running slot and a PCB's estado; with a PID that is not found,
\* suspender_proceso, reanudar_proceso and forzar_terminacion change nothing.
C20_SuspendResumeFrame ==
    \A pid \in 1 .. (MaxProcs + 1) :
       /\ SoloColas(Call, suspender_proceso(Call, pid))
       /\ SoloColas(Call, reanudar_proceso(Call, pid))
       /\ (proceso_actual # pid /\ ~InSeq(cola_listos, pid))
            => suspender_proceso(Call, pid) = Call
       /\ ~InSeq(cola_bloqueados, pid) => reanudar_proceso(Call, pid) = Call
       /\ (proceso_actual # pid /\ ~InSeq(cola_listos, pid)
             /\ ~InSeq(cola_bloqueados, pid))
            => forzar_terminacion(Call, pid) = Call

\* Process 1 is suspended while it owns a frame, process 2 is READY, and a
\* page is in swap.
C20_Witness ==
    /\ InSeq(cola_bloqueados, 1)
    /\ \E f \in DOMAIN ram : ram[f].pid = 1
    /\ \E x \in DOMAIN swap : swap[x] # EmptySlot
    /\ InSeq(cola_listos, 2)

\* C22: every access_page call advances access_clock and ticks by exactly
\* one, and in every reachable state ticks equals access_clock.
C22_ClocksInStep ==
    /\ ticks = access_clock
    /\ \A pid \in LivePids : \A page \in PageIndexes :
         /\ access_page(Call, pid, page).s.access_clock = access_clock + 1
         /\ access_page(Call, pid, page).s.ticks = ticks + 1

\* Both an access_page call and an ejecutar_ciclo call have advanced the
\* clocks.
C22_Witness ==
    /\ total_accesos >= 1
    /\ ticks > total_accesos
    /\ LivePids # {}

\* How often pid is in the RUNNING slot, the READY queue, the WAITING queue
\* and the terminated list, together.
Places(pid) ==
    (IF proceso_actual = pid THEN 1 ELSE 0)
    + Occurrences(cola_listos, pid)
    + Occurrences(cola_bloqueados, pid)
    + Occurrences(procesos_terminados, pid)

\* Every admitted PCB is in exactly one place, once, with the matching
\* estado; PIDs are 1, 2, ... in order of admission.
OnePlaceEach ==
    /\ contador_pid = Len(pcbs) + 1
    /\ proceso_actual = None \/ proceso_actual \in 1 .. Len(pcbs)
    /\ \A pid \in 1 .. Len(pcbs) :
         /\ pcbs[pid].pid = pid
         /\ Places(pid) = 1
         /\ (proceso_actual = pid) => pcbs[pid].estado = "EJECUTANDO"
         /\ InSeq(cola_listos, pid) => pcbs[pid].estado = "LISTO"
         /\ InSeq(cola_bloqueados, pid) => pcbs[pid].estado = "ESPERANDO"
         /\ InSeq(procesos_terminados, pid) => pcbs[pid].estado = "TERMINADO"

\* A terminated PCB stays terminated, and PIDs already given stay given.
TerminatedStays ==
    /\ \A pid \in 1 .. Len(pcbs) :
         InSeq(procesos_terminados, pid) => InSeq(procesos_terminados', pid)
    /\ contador_pid' >= contador_pid

\* C27: in every reachable state each admitted PCB is in exactly one of the
\* RUNNING slot, the READY queue, the WAITING queue and the terminated list,
\* once, with the matching estado; PIDs are distinct and increase from 1;
\* and no step takes a PCB out of the terminated list.
C27_PcbInOnePlace == [] OnePlaceEach /\ [][TerminatedStays]_vars

\* One PCB is suspended and another has been dispatched and has run to its
\* normal end.
C27_Witness ==
    /\ cola_bloqueados # <<>>
    /\ \E i \in 1 .. Len(procesos_terminados) :
         pcbs[procesos_terminados[i]].motivo_terminacion = "Finalizacion Normal"

\* The tick of C21 on simulator h, which ejecutar_ciclo has brought up to
\* the dispatch: when a process with pages is running, the reference to
\* `page' completes, its remaining count drops by one, and at zero it is in
\* the terminated list with the normal reason and the RUNNING slot is empty;
\* otherwise it keeps running.
TickConsumesOne(h, page) ==
    (/\ h.raised = ""
     /\ h.proceso_actual # None
     /\ h.pcbs[h.proceso_actual].paginas >= 1
     /\ page < h.pcbs[h.proceso_actual].paginas) =>
       LET pid == h.proceso_actual
           r == h.pcbs[pid].instrucciones_restantes
           c == ejecutar_referencia(h, page).s
       IN /\ c.raised = ""
          /\ c.pcbs[pid].instrucciones_restantes = r - 1
          /\ IF r - 1 <= 0
             THEN /\ c.proceso_actual = None
                  /\ InSeq(c.procesos_terminados, pid)
                  /\ c.pcbs[pid].estado = "TERMINADO"
                  /\ c.pcbs[pid].motivo_terminacion = "Finalizacion Normal"
             ELSE /\ c.proceso_actual = pid
                  /\ c.pcbs[pid].estado = "EJECUTANDO"

\* C21: on every tick the running process (the head of the READY queue when
\* the RUNNING slot is empty) that has pages and r >= 1 instructions left is
\* left with r - 1 whatever the access does, and with r = 1 it ends in the
\* terminated list with the normal reason, the RUNNING slot empty.
C21_TickProgress ==
    /\ (proceso_actual = None /\ cola_listos # <<>>) =>
          ejecutar_hasta_planificar(Call, FALSE, 0, 1).proceso_actual
            = Head(cola_listos)
    /\ \A page \in PageIndexes :
          TickConsumesOne(ejecutar_hasta_planificar(Call, FALSE, 0, 1), page)
    /\ \A tam_kb \in tamanos, instr \in 1 .. MaxInstr, page \in PageIndexes :
          TickConsumesOne(ejecutar_hasta_planificar(Call, TRUE, tam_kb, instr), page)

\* C23: under FIFO, when no frame is free, the frame select_victim_frame
\* returns is occupied and no occupied frame holds a page loaded earlier
\* than the page in it.
C23_FifoVictimIsOldest ==
    (replacement_algo = "FIFO" /\ free_frames = <<>> /\ num_marcos_ram >= 1) =>
      /\ select_victim_frame(Call).victim \in DOMAIN ram
      /\ ram[select_victim_frame(Call).victim] # EmptyFrame
      /\ \A f \in DOMAIN ram :
           ram[f] # EmptyFrame =>
             ram[select_victim_frame(Call).victim].loaded_time
               <= ram[f].loaded_time

\* The offsets k, counted from the pointer, at which the CLOCK sweep of
\* simulator s stops: frame (p + k) mod n is empty or not referenced.
ClockStops(s) ==
    {k \in 0 .. (s.num_marcos_ram - 1) :
       \/ s.ram[(s.clock_pointer + k) % s.num_marcos_ram] = EmptyFrame
       \/ ~s.ram[(s.clock_pointer + k) % s.num_marcos_ram].referenced}

\* How many frames the sweep passes over: up to the first stop, or all n.
ClockPassed(s) ==
    IF ClockStops(s) = {} THEN s.num_marcos_ram
    ELSE CHOOSE k \in ClockStops(s) : \A j \in ClockStops(s) : k <= j

\* C24: under CLOCK with n >= 1 frames the pointer is within [0, n), and
\* select_victim_frame returns the first frame from the pointer on that is
\* empty or not referenced (frame p when all n are occupied and referenced),
\* clears the referenced bit of exactly the frames it passed over, leaves
\* the pointer at (returned frame + 1) mod n and changes nothing else; with
\* three referenced frames and the pointer at 0 the victim is frame 0.
C24_ClockSecondChance ==
    (replacement_algo = "CLOCK" /\ num_marcos_ram >= 1) =>
      LET n == num_marcos_ram
          p == clock_pointer
          passed == {(p + j) % n : j \in 0 .. (ClockPassed(Call) - 1)}
          victim == (p + ClockPassed(Call)) % n
          r == select_victim_frame(Call)
      IN /\ p \in 0 .. (n - 1)
         /\ r.victim = victim
         /\ r.s = [Call EXCEPT
                     !.ram = [f \in DOMAIN ram |->
                                IF f \in passed
                                THEN [ram[f] EXCEPT !.referenced = FALSE]
                                ELSE ram[f]],
                     !.clock_pointer = (victim + 1) % n]
         /\ r.s.clock_pointer \in 0 .. (n - 1)
         /\ (/\ n = 3 /\ p = 0
             /\ \A f \in DOMAIN ram : ram[f] # EmptyFrame /\ ram[f].referenced)
              => (r.victim = 0 /\ \A f \in DOMAIN ram : ~r.s.ram[f].referenced)

\* Three frames, all occupied and referenced, the pointer back at 0 after
\* earlier sweeps (pages have gone to swap).
C24_Witness ==
    /\ replacement_algo = "CLOCK" /\ num_marcos_ram = 3 /\ clock_pointer = 0
    /\ \A f \in DOMAIN ram : ram[f] # EmptyFrame /\ ram[f].referenced
    /\ swap_outs >= 1

\* The LRU choice among the occupied frames: None when there is none, else
\* the lowest-numbered frame among those with the least last_access.
LruOldest ==
    LET occupied == {f \in DOMAIN ram : ram[f] # EmptyFrame}
        oldest == {f \in occupied :
                     \A g \in occupied : ram[f].last_access <= ram[g].last_access}
    IN IF occupied = {} THEN None
       ELSE CHOOSE f \in oldest : \A g \in oldest : f <= g

\* An access to a Resident page is a hit that stamps the page's frame with
\* the advanced access clock; an access that makes a page Resident (from
\* swap or for the first time) stamps its frame likewise.
StampedOnAccess ==
    \A pid \in LivePids :
      \A page \in PageIndexes \cap DOMAIN pcbs[pid].tabla_paginas :
        LET a == access_page(Call, pid, page) IN
        \A f \in DOMAIN ram :
          /\ Resident(Call, pid, page, f) =>
                /\ a.ret
                /\ a.s.total_fallos = total_fallos
                /\ a.s.ram[f].last_access = access_clock + 1
          /\ (/\ ~pcbs[pid].tabla_paginas[page].present
              /\ a.s.raised = ""
              /\ Resident(a.s, pid, page, f)) =>
                a.s.ram[f].last_access = access_clock + 1

\* The frames of the pages that crear_proceso leaves Resident carry the
\* access clock of the moment.
StampedOnAdmission ==
    \A tam_kb \in tamanos :
      LET c == crear_proceso(Call, tam_kb, 1) IN
      c.raised = "" =>
        \A f \in DOMAIN ram, page \in DOMAIN c.pcbs[contador_pid].tabla_paginas :
          Resident(c, contador_pid, page, f) =>
            c.ram[f].last_access = access_clock

\* C25: under LRU select_victim_frame changes nothing and returns the
\* occupied frame with the least last_access, the lowest index among equals,
\* and None only when no frame is occupied; and under every policy the frame
\* of a Resident page is stamped with the current access clock when the
\* page is loaded and on every hit.
C25_LruVictimAndStamps ==
    /\ replacement_algo = "LRU" =>
          /\ select_victim_frame(Call).s = Call
          /\ select_victim_frame(Call).victim = LruOldest
    /\ StampedOnAccess
    /\ StampedOnAdmission

\* The keys (pid, page) of TLB entries, oldest first.
TlbKeys(entries) == [i \in DOMAIN entries |-> <<entries[i].pid, entries[i].page>>]

\* TLB.lookup on every key the TLB holds: the frame of that entry comes
\* back and the entry goes to the most-recently-used end, the others keeping
\* their order; a key it does not hold leaves it as it is.
LookupPromotes ==
    /\ \A i \in DOMAIN tlb :
         /\ tlb_lookup(tlb, tlb[i].pid, tlb[i].page).frame = tlb[i].frame
         /\ tlb_lookup(tlb, tlb[i].pid, tlb[i].page).entries
              = SelectSeq(tlb, LAMBDA e : e # tlb[i]) \o <<tlb[i]>>
    /\ \A pid \in 1 .. MaxProcs, page \in PageIndexes :
         (\A i \in DOMAIN tlb : <<pid, page>> # TlbKeys(tlb)[i]) =>
            tlb_lookup(tlb, pid, page) = [frame |-> None, entries |-> tlb]

\* TLB.add of a key the TLB does not hold: into a full TLB it drops the
\* oldest entry and nothing else; otherwise it drops nothing.
AddDropsOldest ==
    \A pid \in 1 .. MaxProcs, page \in PageIndexes, f \in DOMAIN ram :
      (\A i \in DOMAIN tlb : <<pid, page>> # TlbKeys(tlb)[i]) =>
         tlb_add(tlb, tlb_size, pid, page, f)
           = (IF Len(tlb) >= tlb_size THEN Tail(tlb) ELSE tlb)
               \o <<[pid |-> pid, page |-> page, frame |-> f]>>

\* The example: a TLB of two entries, a process whose pages 0, 1 and 2 are
\* Resident, each in its own frame, and none of them in the TLB.  Accesses
\* to 0, 1, 2 are page-table hits that leave exactly pages 1 and 2 in the
\* TLB, and the access to page 0 that follows misses the TLB and hits the
\* page table.
TlbWarmth(pid) ==
    (/\ tlb_size = 2
     /\ {0, 1, 2} \subseteq DOMAIN pcbs[pid].tabla_paginas
     /\ \A page \in {0, 1, 2} :
          /\ pcbs[pid].tabla_paginas[page].present
          /\ ram[pcbs[pid].tabla_paginas[page].frame].pid = pid
          /\ ram[pcbs[pid].tabla_paginas[page].frame].page = page
          /\ tlb_index(tlb, pid, page) = 0) =>
       LET a0 == access_page(Call, pid, 0)
           a1 == access_page(a0.s, pid, 1)
           a2 == access_page(a1.s, pid, 2)
           a3 == access_page(a2.s, pid, 0)
       IN /\ a0.ret /\ a1.ret /\ a2.ret /\ a3.ret
          /\ a3.s.total_fallos = total_fallos
          /\ a3.s.total_accesos = total_accesos + 4
          /\ TlbKeys(a2.s.tlb) = <<<<pid, 1>>, <<pid, 2>>>>
          /\ tlb_lookup(a2.s.tlb, pid, 0).frame = None
          /\ TlbKeys(a3.s.tlb) = <<<<pid, 2>>, <<pid, 0>>>>
          /\ a3.s.tlb[2].frame = pcbs[pid].tabla_paginas[0].frame

\* C26: with the TLB enabled and tlb_size >= 1 the TLB never holds more
\* than tlb_size entries, nor two entries for one key; a lookup hit moves
\* the entry to the most-recently-used position; adding a new key to a full
\* TLB drops exactly the least recently used entry; and with capacity 2,
\* page-table hits on Resident pages 0, 1, 2 leave pages {1, 2} in the TLB,
\* so that the next access to page 0 is a TLB miss and a page-table hit.
C26_TlbCapacityAndOrder ==
    (tlb_enabled /\ tlb_size >= 1) =>
      /\ Len(tlb) <= tlb_size
      /\ \A i, j \in DOMAIN tlb : TlbKeys(tlb)[i] = TlbKeys(tlb)[j] => i = j
      /\ LookupPromotes
      /\ AddDropsOldest
      /\ \A pid \in LivePids : TlbWarmth(pid)

\* A full TLB of two entries, beside a process with three pages in three
\* frames, none of them in the TLB.
C26_Witness ==
    /\ tlb_enabled /\ tlb_size = 2 /\ Len(tlb) = 2
    /\ total_accesos >= 2
    /\ \E pid \in LivePids :
         /\ {0, 1, 2} \subseteq DOMAIN pcbs[pid].tabla_paginas
         /\ \A page \in {0, 1, 2} :
              /\ pcbs[pid].tabla_paginas[page].present
              /\ ram[pcbs[pid].tabla_paginas[page].frame].pid = pid
              /\ ram[pcbs[pid].tabla_paginas[page].frame].page = page
              /\ tlb_index(tlb, pid, page) = 0

=============================================================================
